---- MODULE Spec2Model ----
(***************************************************************************)
(* Model of psiphon/server/discovery.go: the Discovery orchestrator that   *)
(* holds the active discovery component behind a sync.RWMutex, replaces it *)
(* in reload and answers DiscoverServers from it.                          *)
(*                                                                         *)
(* One Discovery object d is modelled, and d.support.discovery is d: the   *)
(* read of d.support.discovery.currentStrategy at line 85 is a read of     *)
(* d.currentStrategy made without holding the lock.                        *)
(***************************************************************************)
EXTENDS Integers, Sequences, FiniteSets, TLC

(* ------------------------------ bounds -------------------------------- *)

\* Number of cancellation scopes (context.WithCancel calls) a behaviour may create.
MaxScopes == 3

\* Last reading of the wall clock a call can make.
MaxClock == 2

(* ----------------------------- constants ------------------------------ *)

DISCOVERY_STRATEGY_CLASSIC == "classic"

DISCOVERY_STRATEGY_CONSISTENT == "consistent"

\* A strategy name that is neither empty, classic nor consistent.
UnknownStrategy == "bogus"

\* p.IsNil(): no tactics are configured.
NilParams == "<nil params>"

\* The values the tactics source can hold for ServerDiscoveryStrategy.
TacticsValues ==
    {NilParams, "", DISCOVERY_STRATEGY_CLASSIC, DISCOVERY_STRATEGY_CONSISTENT, UnknownStrategy}

\* What an unsynchronised read of the two-word string d.currentStrategy yields
\* when it overlaps the store at line 138: pointer of one value, length of the
\* other.  It compares unequal to every strategy name.
TornString == "<torn>"

\* Goroutines that call reload (the first one to act runs newDiscovery).
Reloaders == {"r1", "r2"}

\* Goroutines that call DiscoverServers.
Handlers == {"h1", "h2"}

\* No goroutine.
None == "none"

\* The nil *discovery.Discovery, and the nil context.CancelFunc.
Nil == 0

\* Client addresses.
ClientIPs == {0, 1}

\* Each handler goroutine serves the handshake of one client connection.
ClientOf(h) == IF h = "h1" THEN 0 ELSE 1

\* Go slices: nil and non-nil empty slices are different values.
NilSlice == [isNil |-> TRUE, elems |-> <<>>]

MakeSlice(s) == [isNil |-> FALSE, elems |-> s]

(* ------------------------- server registry ---------------------------- *)

\* Server entries are named by their identifier; EncodedServerEntry is the
\* field handed to clients.
ServerIds == {1, 2, 3}

EncodedServerEntry(server) == 100 + server

\* The lists PsinetDatabase.GetDiscoveryServers can return.
CandidateSets == {<<>>, <<1, 2, 3>>}

(* ---------------- discovery component (package discovery) ------------- *)

\* The maximum number of servers disclosed to one client by one selection.
MaxDisclosureCount == 2

\* Length of a time window of the classic strategy, in clock units.
WindowLength == 2

Min(a, b) == IF a < b THEN a ELSE b

\* Keyed pseudorandom value of (client address, window): stands for the HMAC.
KeyedValue(clientIP, window) == 2 * clientIP + window + 1

\* Position of a client address and of a server on the hash ring.
RingSize == 5

ClientRingPosition(clientIP) == (3 * clientIP + 1) % RingSize

ServerRingPosition(server) == (2 * server) % RingSize

\* ClassicSelect keyed by the clock reading itself instead of its window.
ClassicSelect_KeyedByClock(candidates, clientIP, now) ==
    LET n     == Len(candidates)
        count == Min(n, MaxDisclosureCount)
        start == IF n = 0 THEN 0 ELSE KeyedValue(clientIP, now) % n
    IN  [i \in 1..count |-> candidates[((start + i - 1) % n) + 1]]

\* The classic strategy: a window-keyed start index into the candidate list,
\* then up to MaxDisclosureCount consecutive candidates.
ClassicSelect(candidates, clientIP, now) ==
    LET n     == Len(candidates)
        count == Min(n, MaxDisclosureCount)
        start == IF n = 0 THEN 0 ELSE KeyedValue(clientIP, now \div WindowLength) % n
    IN  [i \in 1..count |-> candidates[((start + i - 1) % n) + 1]]

\* Clockwise distance on the ring from a client position to a server position.
RingDistance(from, to) == (to - from + RingSize) % RingSize

\* The candidates in clockwise order from the client's ring position.
RECURSIVE RingWalk(_, _)
RingWalk(servers, from) ==
    IF servers = {} THEN <<>>
    ELSE LET next == CHOOSE s \in servers :
                        \A t \in servers :
                            RingDistance(from, ServerRingPosition(s))
                                <= RingDistance(from, ServerRingPosition(t))
         IN  <<next>> \o RingWalk(servers \ {next}, from)

\* The consistent strategy: walk the ring clockwise from the client's position
\* collecting up to MaxDisclosureCount distinct servers.
ConsistentSelect(candidates, clientIP) ==
    LET walk == RingWalk({candidates[i] : i \in 1..Len(candidates)},
                         ClientRingPosition(clientIP))
    IN  SubSeq(walk, 1, Min(Len(walk), MaxDisclosureCount))

\* discovery.Discovery.SelectServers: the selection of the wrapped strategy.
\* Nothing selected is the nil slice.
SelectServers(instance, clientIP, now) ==
    LET chosen == IF instance.strategy = DISCOVERY_STRATEGY_CONSISTENT
                  THEN ConsistentSelect(instance.servers, clientIP)
                  ELSE ClassicSelect(instance.servers, clientIP, now)
    IN  IF chosen = <<>> THEN NilSlice ELSE MakeSlice(chosen)

\* The nil *discovery.Discovery.  A component is the object NewDiscovery
\* returns: the scope of its context, its strategy and its snapshot of the
\* discovery servers.
NilDiscovery == [scope |-> Nil, strategy |-> "", servers |-> <<>>]

(* ------------------------------ state --------------------------------- *)

VARIABLES
    currentStrategy,   \* d.currentStrategy
    discovery,         \* d.discovery: the active component, or NilDiscovery
    cancelFunc,        \* d.cancelFunc: the scope it cancels, or Nil
    rwWriter,          \* sync.RWMutex: the reloader that called Lock, or None
    rwReaders,         \* sync.RWMutex: the handlers holding the read lock
    tactics,           \* ServerTacticsParametersCache: configured strategy
    nextScope,         \* next scope context.WithCancel hands out
    cancelCount,       \* scope -> number of calls of its CancelFunc
    constructed,       \* newDiscovery: "no", "running", "yes" or "failed"
    pc,                \* goroutine -> position
    reloadedTactics,   \* reloader -> argument of its reload call
    p,                 \* reloader -> local variable p, the tactics parameters
    strategy,          \* reloader -> local variable strategy
    newDiscoveryComponent, \* reloader -> local variables discovery and cancelFunc
    err,               \* reloader -> return value of its last reload
    clientIP,          \* handler -> argument of its DiscoverServers call
    now,               \* handler -> reading of discovery.RealClock in SelectServers
    servers,           \* handler -> local variable servers
    encodedServerEntries, \* handler -> local variable encodedServerEntries
    usedInstance,      \* history: handler -> scope of the component it selected from
    installed,         \* history: scopes whose swap has completed
    lastInstalled,     \* history: scope of the last completed swap
    cancelledBy,       \* history: scope -> scopes of the reloads that cancelled it
    supersededBy,      \* history: scope -> scope that replaced it in d.discovery, or Nil
    tacticsChanged     \* history: the tactics changed after the last read of line 69

orchestrator == <<currentStrategy, discovery, cancelFunc>>

rwMutex == <<rwWriter, rwReaders>>

scopes == <<nextScope, cancelCount, cancelledBy>>

reloadLocals == <<reloadedTactics, p, strategy, newDiscoveryComponent, err>>

handlerLocals == <<clientIP, now, servers, encodedServerEntries, usedInstance>>

history == <<installed, lastInstalled, supersededBy, tacticsChanged>>

vars == <<orchestrator, rwMutex, tactics, scopes, constructed, pc,
          reloadLocals, handlerLocals, history>>

ScopeIds == 1..MaxScopes

\* The zero value of the Discovery struct built at lines 50-52, before reload.
Init ==
    /\ currentStrategy = ""
    /\ discovery = NilDiscovery
    /\ cancelFunc = Nil
    /\ rwWriter = None
    /\ rwReaders = {}
    /\ tactics \in TacticsValues
    /\ nextScope = 1
    /\ cancelCount = [s \in ScopeIds |-> 0]
    /\ constructed = "no"
    /\ pc = [g \in Reloaders \cup Handlers |-> "idle"]
    /\ reloadedTactics = [r \in Reloaders |-> FALSE]
    /\ p = [r \in Reloaders |-> NilParams]
    /\ strategy = [r \in Reloaders |-> ""]
    /\ newDiscoveryComponent = [r \in Reloaders |-> NilDiscovery]
    /\ err = [r \in Reloaders |-> "none"]
    /\ clientIP = [h \in Handlers |-> 0]
    /\ now = [h \in Handlers |-> 0]
    /\ servers = [h \in Handlers |-> NilSlice]
    /\ encodedServerEntries = [h \in Handlers |-> NilSlice]
    /\ usedInstance = [h \in Handlers |-> Nil]
    /\ installed = {}
    /\ lastInstalled = Nil
    /\ cancelledBy = [s \in ScopeIds |-> {}]
    /\ supersededBy = [s \in ScopeIds |-> Nil]
    /\ tacticsChanged = FALSE

(* ------------------------------ reload -------------------------------- *)

\* Reloaders that are inside reload and have not yet reached line 112.
BeforeScope == {r \in Reloaders : pc[r] \in {"get", "check", "newStrategy", "newDiscovery"}}

\* A return from reload with e: "nil", "error" (the traced error of a callee)
\* or "unknown strategy" (line 106).  The locals die; the reload run by
\* newDiscovery decides whether the Discovery object is handed out (lines 54-59).
ReloadReturn(r, e) ==
    /\ pc' = [pc EXCEPT ![r] = "idle"]
    /\ err' = [err EXCEPT ![r] = e]
    /\ reloadedTactics' = [reloadedTactics EXCEPT ![r] = FALSE]
    /\ p' = [p EXCEPT ![r] = NilParams]
    /\ strategy' = [strategy EXCEPT ![r] = ""]
    /\ newDiscoveryComponent' = [newDiscoveryComponent EXCEPT ![r] = NilDiscovery]
    /\ constructed' = IF constructed = "running"
                      THEN (IF e = "nil" THEN "yes" ELSE "failed")
                      ELSE constructed

\* newDiscovery: builds the object and calls reload(false) on it.
newDiscovery(r) ==
    /\ constructed = "no"
    /\ pc[r] = "idle"
    /\ constructed' = "running"
    /\ pc' = [pc EXCEPT ![r] = "get"]
    /\ reloadedTactics' = [reloadedTactics EXCEPT ![r] = FALSE]
    /\ err' = [err EXCEPT ![r] = "none"]
    /\ UNCHANGED <<orchestrator, rwMutex, tactics, scopes, p, strategy,
                   newDiscoveryComponent, handlerLocals, history>>

\* A call of reload on the constructed object.
ReloadCall(r) ==
    /\ constructed = "yes"
    /\ pc[r] = "idle"
    /\ nextScope + Cardinality(BeforeScope) <= MaxScopes
    /\ \E flag \in BOOLEAN : reloadedTactics' = [reloadedTactics EXCEPT ![r] = flag]
    /\ pc' = [pc EXCEPT ![r] = "get"]
    /\ err' = [err EXCEPT ![r] = "none"]
    /\ UNCHANGED <<orchestrator, rwMutex, tactics, scopes, constructed, p, strategy,
                   newDiscoveryComponent, handlerLocals, history>>

\* Lines 74-81: the target strategy of parameters params.
TargetStrategy(params) ==
    IF params = NilParams \/ params = ""
    THEN DISCOVERY_STRATEGY_CLASSIC
    ELSE params

\* Lines 69-81: fetch the tactics parameters and determine the target strategy.
GetTactics(r) ==
    /\ pc[r] = "get"
    /\ \/ /\ ReloadReturn(r, "error")
          /\ UNCHANGED <<orchestrator, rwMutex, tactics, scopes, handlerLocals, history>>
       \/ /\ p' = [p EXCEPT ![r] = tactics]
          /\ strategy' = [strategy EXCEPT ![r] = TargetStrategy(tactics)]
          /\ tacticsChanged' = FALSE
          /\ pc' = [pc EXCEPT ![r] = "check"]
          /\ UNCHANGED <<orchestrator, rwMutex, tactics, scopes, constructed,
                         reloadedTactics, newDiscoveryComponent, err, handlerLocals,
                         installed, lastInstalled, supersededBy>>

\* The values the read of d.support.discovery.currentStrategy at line 85 can
\* yield for reloader r.  The read holds no lock: when it overlaps another
\* reload's store of a different string at line 138 it may be torn.
StrategyReads(r) ==
    {currentStrategy} \cup
        (IF \E w \in Reloaders \ {r} :
                pc[w] = "setStrategy" /\ strategy[w] # currentStrategy
         THEN {TornString}
         ELSE {})

\* Lines 83-87: skip the reload when only tactics were reloaded and the
\* strategy has not changed.  p is not read after line 76 and reloadedTactics
\* not after line 85: past the check the model holds them at their initial
\* values.
CheckStrategy(r) ==
    /\ pc[r] = "check"
    /\ \E seen \in (IF reloadedTactics[r] THEN StrategyReads(r) ELSE {""}) :
          IF reloadedTactics[r] /\ seen = strategy[r]
          THEN /\ ReloadReturn(r, "nil")
               /\ UNCHANGED <<orchestrator, rwMutex, tactics, scopes, handlerLocals,
                              history>>
          ELSE /\ pc' = [pc EXCEPT ![r] = "newStrategy"]
               /\ reloadedTactics' = [reloadedTactics EXCEPT ![r] = FALSE]
               /\ p' = [p EXCEPT ![r] = NilParams]
               /\ UNCHANGED <<orchestrator, rwMutex, tactics, scopes, constructed,
                              strategy, newDiscoveryComponent, err, handlerLocals,
                              history>>

\* NewStrategy with the final else of line 105 falling through to the classic
\* strategy instead of returning an error.
NewStrategy_UnknownIsClassic(r) ==
    /\ pc[r] = "newStrategy"
    /\ \/ /\ strategy[r] \in {DISCOVERY_STRATEGY_CONSISTENT, DISCOVERY_STRATEGY_CLASSIC}
          /\ ReloadReturn(r, "error")
          /\ UNCHANGED <<orchestrator, rwMutex, tactics, scopes, handlerLocals, history>>
       \/ /\ pc' = [pc EXCEPT ![r] = "newDiscovery"]
          /\ UNCHANGED <<orchestrator, rwMutex, tactics, scopes, constructed,
                         reloadLocals, handlerLocals, history>>

\* Lines 92-107: construct the strategy; an unknown name is an error.
NewStrategy(r) ==
    /\ pc[r] = "newStrategy"
    /\ IF strategy[r] \in {DISCOVERY_STRATEGY_CONSISTENT, DISCOVERY_STRATEGY_CLASSIC}
       THEN \/ /\ ReloadReturn(r, "error")
               /\ UNCHANGED <<orchestrator, rwMutex, tactics, scopes, handlerLocals,
                              history>>
            \/ /\ pc' = [pc EXCEPT ![r] = "newDiscovery"]
               /\ UNCHANGED <<orchestrator, rwMutex, tactics, scopes, constructed,
                              reloadLocals, handlerLocals, history>>
       ELSE /\ ReloadReturn(r, "unknown strategy")
            /\ UNCHANGED <<orchestrator, rwMutex, tactics, scopes, handlerLocals,
                           history>>

\* A call of the CancelFunc of scope s, made by the reload whose own scope is by.
Cancel(s, by) ==
    /\ cancelCount' = [cancelCount EXCEPT ![s] = @ + 1]
    /\ cancelledBy' = [cancelledBy EXCEPT ![s] = @ \cup {by}]

\* NewDiscoveryComponent with line 120 calling d.cancelFunc, the handle of the
\* active component, instead of the local cancelFunc.
NewDiscoveryComponent_CancelsActive(r) ==
    /\ pc[r] = "newDiscovery"
    /\ nextScope' = nextScope + 1
    /\ \/ /\ IF cancelFunc # Nil
             THEN Cancel(cancelFunc, nextScope)
             ELSE UNCHANGED <<cancelCount, cancelledBy>>
          /\ ReloadReturn(r, "error")
          /\ UNCHANGED <<orchestrator, rwMutex, tactics, handlerLocals, history>>
       \/ /\ \E psinetServers \in CandidateSets :
                newDiscoveryComponent' = [newDiscoveryComponent EXCEPT ![r] =
                    [scope |-> nextScope, strategy |-> strategy[r],
                     servers |-> psinetServers]]
          /\ pc' = [pc EXCEPT ![r] = "lock"]
          /\ UNCHANGED <<orchestrator, rwMutex, tactics, cancelCount, cancelledBy,
                         constructed, reloadedTactics, p, strategy, err, handlerLocals,
                         history>>

\* NewDiscoveryComponent with line 120 left out: the scope of a component that
\* failed to construct is never cancelled.
NewDiscoveryComponent_LeaksScope(r) ==
    /\ pc[r] = "newDiscovery"
    /\ nextScope' = nextScope + 1
    /\ \/ /\ ReloadReturn(r, "error")
          /\ UNCHANGED <<orchestrator, rwMutex, tactics, cancelCount, cancelledBy,
                         handlerLocals, history>>
       \/ /\ \E psinetServers \in CandidateSets :
                newDiscoveryComponent' = [newDiscoveryComponent EXCEPT ![r] =
                    [scope |-> nextScope, strategy |-> strategy[r],
                     servers |-> psinetServers]]
          /\ pc' = [pc EXCEPT ![r] = "lock"]
          /\ UNCHANGED <<orchestrator, rwMutex, tactics, cancelCount, cancelledBy,
                         constructed, reloadedTactics, p, strategy, err, handlerLocals,
                         history>>

\* Lines 112-122: create the scope and construct the discovery component from
\* what PsinetDatabase.GetDiscoveryServers returns; on failure cancel the new
\* scope and return.
NewDiscoveryComponent(r) ==
    /\ pc[r] = "newDiscovery"
    /\ nextScope' = nextScope + 1
    /\ \/ /\ Cancel(nextScope, nextScope)
          /\ ReloadReturn(r, "error")
          /\ UNCHANGED <<orchestrator, rwMutex, tactics, handlerLocals, history>>
       \/ /\ \E psinetServers \in CandidateSets :
                newDiscoveryComponent' = [newDiscoveryComponent EXCEPT ![r] =
                    [scope |-> nextScope, strategy |-> strategy[r],
                     servers |-> psinetServers]]
          /\ pc' = [pc EXCEPT ![r] = "lock"]
          /\ UNCHANGED <<orchestrator, rwMutex, tactics, cancelCount, cancelledBy,
                         constructed, reloadedTactics, p, strategy, err, handlerLocals,
                         history>>

\* Lock with lines 132-134 moved before line 124: the previous component is
\* cancelled before the readers are excluded.
Lock_CancelsFirst(r) ==
    /\ pc[r] = "lock"
    /\ rwWriter = None
    /\ rwWriter' = r
    /\ IF cancelFunc # Nil
       THEN Cancel(cancelFunc, newDiscoveryComponent[r].scope)
       ELSE UNCHANGED <<cancelCount, cancelledBy>>
    /\ pc' = [pc EXCEPT ![r] = "lockWait"]
    /\ UNCHANGED <<orchestrator, rwReaders, tactics, nextScope, constructed,
                   reloadLocals, handlerLocals, history>>

\* Line 124, first half of sync.RWMutex.Lock: exclude the other writers and
\* announce the writer, which blocks new readers.
Lock(r) ==
    /\ pc[r] = "lock"
    /\ rwWriter = None
    /\ rwWriter' = r
    /\ pc' = [pc EXCEPT ![r] = "lockWait"]
    /\ UNCHANGED <<orchestrator, rwReaders, tactics, scopes, constructed,
                   reloadLocals, handlerLocals, history>>

\* LockAcquired without the wait for the active readers.
LockAcquired_NoWait(r) ==
    /\ pc[r] = "lockWait"
    /\ pc' = [pc EXCEPT ![r] = "cancelPrevious"]
    /\ UNCHANGED <<orchestrator, rwMutex, tactics, scopes, constructed,
                   reloadLocals, handlerLocals, history>>

\* Line 124, second half of sync.RWMutex.Lock: wait for the active readers.
LockAcquired(r) ==
    /\ pc[r] = "lockWait"
    /\ rwReaders = {}
    /\ pc' = [pc EXCEPT ![r] = "cancelPrevious"]
    /\ UNCHANGED <<orchestrator, rwMutex, tactics, scopes, constructed,
                   reloadLocals, handlerLocals, history>>

\* CancelPrevious with lines 132-134 left out: the previous scope is never
\* cancelled.
CancelPrevious_Skips(r) ==
    /\ pc[r] = "cancelPrevious"
    /\ pc' = [pc EXCEPT ![r] = "setDiscovery"]
    /\ UNCHANGED <<orchestrator, rwMutex, tactics, scopes, constructed,
                   reloadLocals, handlerLocals, history>>

\* CancelPrevious with line 133 calling the local cancelFunc, the handle of the
\* new component, instead of d.cancelFunc.
CancelPrevious_CancelsNew(r) ==
    /\ pc[r] = "cancelPrevious"
    /\ IF cancelFunc # Nil
       THEN Cancel(newDiscoveryComponent[r].scope, newDiscoveryComponent[r].scope)
       ELSE UNCHANGED <<cancelCount, cancelledBy>>
    /\ pc' = [pc EXCEPT ![r] = "setDiscovery"]
    /\ UNCHANGED <<orchestrator, rwMutex, tactics, nextScope, constructed,
                   reloadLocals, handlerLocals, history>>

\* Lines 132-134: cancel the scope of the previous component, if any.
CancelPrevious(r) ==
    /\ pc[r] = "cancelPrevious"
    /\ IF cancelFunc # Nil
       THEN Cancel(cancelFunc, newDiscoveryComponent[r].scope)
       ELSE UNCHANGED <<cancelCount, cancelledBy>>
    /\ pc' = [pc EXCEPT ![r] = "setDiscovery"]
    /\ UNCHANGED <<orchestrator, rwMutex, tactics, nextScope, constructed,
                   reloadLocals, handlerLocals, history>>

\* SetDiscovery with line 136 guarded by d.discovery == nil: the component is
\* set once and never replaced.
SetDiscovery_OnlyIfNil(r) ==
    /\ pc[r] = "setDiscovery"
    /\ discovery' = IF discovery = NilDiscovery THEN newDiscoveryComponent[r] ELSE discovery
    /\ pc' = [pc EXCEPT ![r] = "setCancelFunc"]
    /\ UNCHANGED <<currentStrategy, cancelFunc, rwMutex, tactics, scopes, constructed,
                   reloadLocals, handlerLocals, history>>

\* Line 136.
SetDiscovery(r) ==
    /\ pc[r] = "setDiscovery"
    /\ discovery' = newDiscoveryComponent[r]
    /\ supersededBy' = IF discovery = NilDiscovery
                       THEN supersededBy
                       ELSE [supersededBy EXCEPT ![discovery.scope] =
                                newDiscoveryComponent[r].scope]
    /\ pc' = [pc EXCEPT ![r] = "setCancelFunc"]
    /\ UNCHANGED <<currentStrategy, cancelFunc, rwMutex, tactics, scopes, constructed,
                   reloadLocals, handlerLocals, installed, lastInstalled,
                   tacticsChanged>>

\* SetCancelFunc with line 137 left out: d.cancelFunc keeps the handle of the
\* previous component.
SetCancelFunc_Omitted(r) ==
    /\ pc[r] = "setCancelFunc"
    /\ pc' = [pc EXCEPT ![r] = "setStrategy"]
    /\ UNCHANGED <<orchestrator, rwMutex, tactics, scopes, constructed,
                   reloadLocals, handlerLocals, history>>

\* Line 137.
SetCancelFunc(r) ==
    /\ pc[r] = "setCancelFunc"
    /\ cancelFunc' = newDiscoveryComponent[r].scope
    /\ pc' = [pc EXCEPT ![r] = "setStrategy"]
    /\ UNCHANGED <<currentStrategy, discovery, rwMutex, tactics, scopes, constructed,
                   reloadLocals, handlerLocals, history>>

\* Line 138.
SetStrategy(r) ==
    /\ pc[r] = "setStrategy"
    /\ currentStrategy' = strategy[r]
    /\ pc' = [pc EXCEPT ![r] = "unlock"]
    /\ UNCHANGED <<discovery, cancelFunc, rwMutex, tactics, scopes, constructed,
                   reloadLocals, handlerLocals, history>>

\* Lines 140-145: release the write lock, log, return nil.
Unlock(r) ==
    /\ pc[r] = "unlock"
    /\ rwWriter' = None
    /\ installed' = installed \cup {newDiscoveryComponent[r].scope}
    /\ lastInstalled' = newDiscoveryComponent[r].scope
    /\ ReloadReturn(r, "nil")
    /\ UNCHANGED <<orchestrator, rwReaders, tactics, scopes, handlerLocals, supersededBy,
                   tacticsChanged>>

(* -------------------------- DiscoverServers --------------------------- *)

\* Line 151: a call of DiscoverServers on the constructed object, its argument
\* one of addresses.
DiscoverServersCall(h, addresses) ==
    /\ constructed = "yes"
    /\ pc[h] = "idle"
    /\ \E address \in addresses : clientIP' = [clientIP EXCEPT ![h] = address]
    /\ pc' = [pc EXCEPT ![h] = "rlock"]
    /\ UNCHANGED <<orchestrator, rwMutex, tactics, scopes, constructed, reloadLocals,
                   now, servers, encodedServerEntries, usedInstance, history>>

\* A call of DiscoverServers made by handler h for its client.
DiscoverCall(h) == DiscoverServersCall(h, {ClientOf(h)})

\* RLock that does not block on a writer (line 153 left out).
RLock_IgnoresWriter(h) ==
    /\ pc[h] = "rlock"
    /\ rwReaders' = rwReaders \cup {h}
    /\ pc' = [pc EXCEPT ![h] = "select"]
    /\ UNCHANGED <<orchestrator, rwWriter, tactics, scopes, constructed, reloadLocals,
                   handlerLocals, history>>

\* Line 153, sync.RWMutex.RLock: blocks while a writer holds or awaits the lock.
RLock(h) ==
    /\ pc[h] = "rlock"
    /\ rwWriter = None
    /\ rwReaders' = rwReaders \cup {h}
    /\ pc' = [pc EXCEPT ![h] = "select"]
    /\ UNCHANGED <<orchestrator, rwWriter, tactics, scopes, constructed, reloadLocals,
                   handlerLocals, history>>

\* Encode with line 158 declaring a nil slice (var encodedServerEntries
\* []string): appending nothing leaves it nil.
Encode_NilWhenEmpty(selected) ==
    IF selected.elems = <<>>
    THEN NilSlice
    ELSE MakeSlice([i \in 1..Len(selected.elems) |->
                       EncodedServerEntry(selected.elems[i])])

\* Encode with line 158 as make([]string, len(servers)): the appended entries
\* follow len(servers) zero-value strings.
Encode_MakeWithLen(selected) ==
    MakeSlice([i \in 1..Len(selected.elems) |-> 0]
              \o [i \in 1..Len(selected.elems) |-> EncodedServerEntry(selected.elems[i])])

\* Encode with line 161 putting each entry in front of the ones before it
\* (append([]string{entry}, encodedServerEntries...)).
Encode_Prepends(selected) ==
    MakeSlice([i \in 1..Len(selected.elems) |->
                  EncodedServerEntry(selected.elems[Len(selected.elems) + 1 - i])])

\* Lines 158-162: a new empty slice, then the encoded entry of every server appended.
Encode(selected) ==
    MakeSlice([i \in 1..Len(selected.elems) |-> EncodedServerEntry(selected.elems[i])])

\* The readings of discovery.RealClock a selection by component c can make
\* (only the classic strategy reads the clock).
ClockReadings(c) ==
    IF c.strategy = DISCOVERY_STRATEGY_CLASSIC THEN 0..MaxClock ELSE {0}

\* Lines 156-162: select from the active component and encode the selection.
\* A nil d.discovery is a nil pointer dereference: the goroutine panics (the
\* deferred RUnlock runs).
Select(h) ==
    /\ pc[h] = "select"
    /\ IF discovery = NilDiscovery
       THEN /\ pc' = [pc EXCEPT ![h] = "panic"]
            /\ rwReaders' = rwReaders \ {h}
            /\ UNCHANGED <<now, servers, encodedServerEntries, usedInstance>>
       ELSE /\ \E t \in ClockReadings(discovery) :
                  LET selected == SelectServers(discovery, clientIP[h], t)
                  IN  /\ now' = [now EXCEPT ![h] = t]
                      /\ servers' = [servers EXCEPT ![h] = selected]
                      /\ encodedServerEntries' =
                             [encodedServerEntries EXCEPT ![h] = Encode(selected)]
            /\ usedInstance' = [usedInstance EXCEPT ![h] = discovery.scope]
            /\ pc' = [pc EXCEPT ![h] = "return"]
            /\ UNCHANGED rwReaders
    /\ UNCHANGED <<orchestrator, rwWriter, tactics, scopes, constructed, reloadLocals,
                   clientIP, history>>

\* Return with the deferred RUnlock of line 154 left out: the read lock is
\* never released.
Return_KeepsReadLock(h) ==
    /\ pc[h] = "return"
    /\ pc' = [pc EXCEPT ![h] = "idle"]
    /\ clientIP' = [clientIP EXCEPT ![h] = 0]
    /\ now' = [now EXCEPT ![h] = 0]
    /\ servers' = [servers EXCEPT ![h] = NilSlice]
    /\ encodedServerEntries' = [encodedServerEntries EXCEPT ![h] = NilSlice]
    /\ usedInstance' = [usedInstance EXCEPT ![h] = Nil]
    /\ UNCHANGED <<orchestrator, rwMutex, tactics, scopes, constructed, reloadLocals,
                   history>>

\* Line 164 and the deferred RUnlock of line 154: the locals die.
Return(h) ==
    /\ pc[h] = "return"
    /\ rwReaders' = rwReaders \ {h}
    /\ pc' = [pc EXCEPT ![h] = "idle"]
    /\ clientIP' = [clientIP EXCEPT ![h] = 0]
    /\ now' = [now EXCEPT ![h] = 0]
    /\ servers' = [servers EXCEPT ![h] = NilSlice]
    /\ encodedServerEntries' = [encodedServerEntries EXCEPT ![h] = NilSlice]
    /\ usedInstance' = [usedInstance EXCEPT ![h] = Nil]
    /\ UNCHANGED <<orchestrator, rwWriter, tactics, scopes, constructed, reloadLocals,
                   history>>

(* ---------------------------- environment ----------------------------- *)

\* The tactics source changes the configured strategy.  The program sees the
\* configuration only through the read of line 69, so a change is taken when a
\* reload is about to make that read.
ChangeTactics ==
    /\ \E r \in Reloaders : pc[r] = "get"
    /\ \E t \in TacticsValues \ {tactics} : tactics' = t
    /\ tacticsChanged' = TRUE
    /\ UNCHANGED <<orchestrator, rwMutex, scopes, constructed, pc, reloadLocals,
                   handlerLocals, installed, lastInstalled, supersededBy>>

Next ==
    \/ \E r \in Reloaders :
          \/ newDiscovery(r)
          \/ ReloadCall(r)
          \/ GetTactics(r)
          \/ CheckStrategy(r)
          \/ NewStrategy(r)
          \/ NewDiscoveryComponent(r)
          \/ Lock(r)
          \/ LockAcquired(r)
          \/ CancelPrevious(r)
          \/ SetDiscovery(r)
          \/ SetCancelFunc(r)
          \/ SetStrategy(r)
          \/ Unlock(r)
    \/ \E h \in Handlers :
          \/ DiscoverCall(h)
          \/ RLock(h)
          \/ Select(h)
          \/ Return(h)
    \/ ChangeTactics

Spec == Init /\ [][Next]_vars

(* --------------------- selection on a fixed component ----------------- *)

\* The candidate lists a component can have been constructed from: every list
\* of distinct servers.
RECURSIVE Arrangements(_)
Arrangements(ids) ==
    {<<>>} \cup UNION {{<<first>> \o rest : rest \in Arrangements(ids \ {first})} :
                          first \in ids}

\* The state after newDiscovery has returned an object whose first component
\* was constructed for a known strategy from any candidate list.
SelectInit ==
    /\ \E name \in {DISCOVERY_STRATEGY_CLASSIC, DISCOVERY_STRATEGY_CONSISTENT},
          candidates \in Arrangements(ServerIds) :
          /\ tactics = name
          /\ currentStrategy = name
          /\ discovery = [scope |-> 1, strategy |-> name, servers |-> candidates]
    /\ cancelFunc = 1
    /\ rwWriter = None
    /\ rwReaders = {}
    /\ nextScope = 2
    /\ cancelCount = [s \in ScopeIds |-> 0]
    /\ constructed = "yes"
    /\ pc = [g \in Reloaders \cup Handlers |-> "idle"]
    /\ reloadedTactics = [r \in Reloaders |-> FALSE]
    /\ p = [r \in Reloaders |-> NilParams]
    /\ strategy = [r \in Reloaders |-> ""]
    /\ newDiscoveryComponent = [r \in Reloaders |-> NilDiscovery]
    /\ err = [r \in Reloaders |-> "none"]
    /\ clientIP = [h \in Handlers |-> 0]
    /\ now = [h \in Handlers |-> 0]
    /\ servers = [h \in Handlers |-> NilSlice]
    /\ encodedServerEntries = [h \in Handlers |-> NilSlice]
    /\ usedInstance = [h \in Handlers |-> Nil]
    /\ installed = {1}
    /\ lastInstalled = 1
    /\ cancelledBy = [s \in ScopeIds |-> {}]
    /\ supersededBy = [s \in ScopeIds |-> Nil]
    /\ tacticsChanged = FALSE

\* DiscoverServers calls for any client address, with no reload running.
SelectNext ==
    \E h \in Handlers :
        \/ DiscoverServersCall(h, ClientIPs)
        \/ RLock(h)
        \/ Select(h)
        \/ Return(h)

SelectSpec == SelectInit /\ [][SelectNext]_vars

(* ------------------------- fair scheduling ---------------------------- *)

\* A step goroutine r takes inside reload.
ReloadStep(r) ==
    \/ GetTactics(r)
    \/ CheckStrategy(r)
    \/ NewStrategy(r)
    \/ NewDiscoveryComponent(r)
    \/ Lock(r)
    \/ LockAcquired(r)
    \/ CancelPrevious(r)
    \/ SetDiscovery(r)
    \/ SetCancelFunc(r)
    \/ SetStrategy(r)
    \/ Unlock(r)

\* A step goroutine h takes inside DiscoverServers.
HandlerStep(h) == RLock(h) \/ Select(h) \/ Return(h)

\* The state after newDiscovery has returned an object whose first component
\* was constructed from what PsinetDatabase.GetDiscoveryServers returned.
LiveInit ==
    /\ SelectInit
    /\ discovery.servers \in CandidateSets

\* reload and DiscoverServers calls on the constructed object, the tactics
\* staying as they were at construction.
LiveNext ==
    \/ \E r \in Reloaders : ReloadCall(r) \/ ReloadStep(r)
    \/ \E h \in Handlers : DiscoverCall(h) \/ HandlerStep(h)

\* The Go scheduler runs every runnable goroutine, and sync.RWMutex hands the
\* lock to every goroutine waiting for it once it is free: a goroutine inside
\* a call whose next step stays possible takes it.  Calls need not be made.
Fairness ==
    /\ \A r \in Reloaders : WF_vars(ReloadStep(r))
    /\ \A h \in Handlers : WF_vars(HandlerStep(h))

FairSpec == LiveInit /\ [][LiveNext]_vars /\ Fairness

(* ------------------------------ claims -------------------------------- *)

\* The strategy names reload accepts (lines 93 and 98).
KnownStrategies == {DISCOVERY_STRATEGY_CLASSIC, DISCOVERY_STRATEGY_CONSISTENT}

\* Reloader r is between d.Lock() returning (line 124) and d.Unlock() (line 140).
InSwap(r) == pc[r] \in {"cancelPrevious", "setDiscovery", "setCancelFunc", "setStrategy", "unlock"}

\* Handler h is between d.RLock() returning (line 153) and the deferred d.RUnlock().
InReadSection(h) == pc[h] \in {"select", "return"}

\* Reloader r is inside reload, before d.Lock() (lines 69-122).
BeforeSwap(r) == pc[r] \in {"get", "check", "newStrategy", "newDiscovery"}

\* The position that follows position at, for the positions before d.Lock().
NextPosition(at) ==
    CASE at = "get" -> "check"
      [] at = "check" -> "newStrategy"
      [] at = "newStrategy" -> "newDiscovery"
      [] at = "newDiscovery" -> "lock"

\* C1: on a constructed orchestrator, a reload whose target strategy is neither
\* classic nor consistent is not skipped by the check of line 85, returns the
\* "unknown strategy" error from line 106, and no step of it changes the active
\* strategy name, the active component, its cancellation handle, or any
\* cancellation count.
C1_UnknownStrategyRejected ==
    [][\A r \in Reloaders :
          (/\ constructed = "yes"
           /\ pc[r] \in {"check", "newStrategy"}
           /\ strategy[r] \notin KnownStrategies
           /\ pc'[r] # pc[r])
          => /\ pc[r] = "check" => pc'[r] = "newStrategy"
             /\ pc[r] = "newStrategy" => pc'[r] = "idle" /\ err'[r] = "unknown strategy"
             /\ UNCHANGED <<currentStrategy, discovery, cancelFunc, cancelCount>>]_vars

\* C1 witness: a reload has returned the unknown-strategy error and a
\* DiscoverServers call is then answered by the component that is still active
\* and not cancelled.
C1_Witness ==
    \E r \in Reloaders, h \in Handlers :
        /\ pc[r] = "idle"
        /\ err[r] = "unknown strategy"
        /\ constructed = "yes"
        /\ pc[h] = "return"
        /\ usedInstance[h] = discovery.scope
        /\ cancelCount[discovery.scope] = 0

\* C2: every step reload takes before d.Lock() leaves the active strategy name,
\* the active component and the cancellation handle unchanged and does not
\* cancel the active component; from such a position reload either advances or
\* returns at once (an error from the failing step, nil only from the skip of
\* line 86), and an error is returned from nowhere else.
C2_FailedReloadChangesNothing ==
    [][\A r \in Reloaders :
          /\ (BeforeSwap(r) /\ pc'[r] # pc[r])
             => /\ UNCHANGED <<currentStrategy, discovery, cancelFunc>>
                /\ cancelFunc # Nil => cancelCount'[cancelFunc] = cancelCount[cancelFunc]
                /\ pc'[r] # NextPosition(pc[r])
                   => /\ pc'[r] = "idle"
                      /\ IF pc[r] = "check"
                         THEN err'[r] = "nil"
                         ELSE err'[r] \in {"error", "unknown strategy"}
          /\ (pc[r] # "idle" /\ pc'[r] = "idle" /\ err'[r] # "nil")
             => pc[r] \in {"get", "newStrategy", "newDiscovery"}]_vars

\* C2 witness: after construction a reload failed in constructing the discovery
\* component (its own scope is the one it cancelled) and the active component is
\* in place and not cancelled.
C2_Witness ==
    \E r \in Reloaders, s \in ScopeIds :
        /\ pc[r] = "idle"
        /\ err[r] = "error"
        /\ constructed = "yes"
        /\ cancelledBy[s] = {s}
        /\ discovery # NilDiscovery
        /\ cancelFunc = discovery.scope
        /\ cancelCount[cancelFunc] = 0

\* C3: a reload(true) whose target strategy equals the active strategy name when
\* it reaches the check of line 85 returns nil there and changes nothing: no
\* scope is created, nothing is cancelled, the orchestrator state is unchanged.
C3_SkipWhenUnchanged ==
    [][\A r \in Reloaders :
          (/\ pc[r] = "check"
           /\ reloadedTactics[r]
           /\ strategy[r] = currentStrategy
           /\ pc'[r] # pc[r])
          => /\ pc'[r] = "idle"
             /\ err'[r] = "nil"
             /\ UNCHANGED <<currentStrategy, discovery, cancelFunc, nextScope, cancelCount>>]_vars

\* No other reload is about to store a different string into d.currentStrategy.
NoStoreInFlight(r) ==
    \A w \in Reloaders \ {r} : ~(pc[w] = "setStrategy" /\ strategy[w] # currentStrategy)

\* The statement of C3 restricted to checks that overlap no store of line 138.
C3_SkipWhenUnchangedNoRace ==
    [][\A r \in Reloaders :
          (/\ pc[r] = "check"
           /\ reloadedTactics[r]
           /\ strategy[r] = currentStrategy
           /\ NoStoreInFlight(r)
           /\ pc'[r] # pc[r])
          => /\ pc'[r] = "idle"
             /\ err'[r] = "nil"
             /\ UNCHANGED <<currentStrategy, discovery, cancelFunc, nextScope, cancelCount>>]_vars

\* C4: whenever a DiscoverServers call is inside its read section, the
\* orchestrator state is that of one completed swap: the active component is
\* set, its swap has completed, the cancellation handle is the one of that
\* component and the active strategy name is the strategy of that component;
\* the call selects from exactly that component.
C4_ReadersSeeWholeSwap ==
    \A h \in Handlers :
        InReadSection(h)
        => /\ discovery # NilDiscovery
           /\ discovery.scope \in installed
           /\ cancelFunc = discovery.scope
           /\ currentStrategy = discovery.strategy
           /\ pc[h] = "return" => usedInstance[h] = discovery.scope

\* C4 witness: a call has selected from a component installed by a reload after
\* construction while another reload is waiting for the write lock.
C4_Witness ==
    \E h \in Handlers, r \in Reloaders :
        /\ pc[h] = "return"
        /\ pc[r] = "lockWait"
        /\ Cardinality(installed) >= 2
        /\ usedInstance[h] = discovery.scope

\* C5: a DiscoverServers call is answered by the component of the last swap that
\* completed, a component nothing has superseded; hence never by a component
\* superseded before the call started.
C5_AnsweredByLastSwap ==
    \A h \in Handlers :
        pc[h] = "return"
        => /\ usedInstance[h] = lastInstalled
           /\ supersededBy[usedInstance[h]] = Nil

\* C5 witness: a call is answered by the component a reload installed after the
\* first component had been superseded.
C5_Witness ==
    \E h \in Handlers, s \in ScopeIds :
        /\ pc[h] = "return"
        /\ supersededBy[s] = usedInstance[h]
        /\ usedInstance[h] = lastInstalled

\* C6: at most one reload is inside the swap critical section, and while one is
\* inside it no DiscoverServers call is inside its read section.
C6_WriterExcludesAll ==
    /\ Cardinality({r \in Reloaders : InSwap(r)}) <= 1
    /\ (\E r \in Reloaders : InSwap(r)) => \A h \in Handlers : ~InReadSection(h)

\* C6 witness: all handlers are inside their read sections at the same time,
\* while a reload waits for the write lock.
C6_Witness ==
    /\ \A h \in Handlers : InReadSection(h)
    /\ \E r \in Reloaders : pc[r] = "lockWait"

C8_SupersededCancelledOnce ==
    /\ \A s \in ScopeIds : cancelCount[s] <= 1
    /\ \A s \in installed :
          s # discovery.scope
          => /\ cancelCount[s] = 1
             /\ supersededBy[s] # Nil
             /\ cancelledBy[s] = {supersededBy[s]}

\* C8 witness: two components have been superseded one after the other, each
\* cancelled once.
C8_Witness ==
    \E s, t \in installed :
        /\ s # t
        /\ supersededBy[s] = t
        /\ supersededBy[t] # Nil
        /\ cancelCount[s] = 1
        /\ cancelCount[t] = 1

\* C9: with nil tactics parameters or an empty strategy name the target strategy
\* is classic; a reload(true) in that case is skipped exactly when the active
\* strategy name is classic; a reload with target classic that reaches line 138
\* leaves the active strategy name equal to classic.
C9_DefaultsToClassic ==
    [][\A r \in Reloaders :
          /\ (pc[r] = "get" /\ pc'[r] = "check" /\ tactics \in {NilParams, ""})
             => strategy'[r] = DISCOVERY_STRATEGY_CLASSIC
          /\ (pc[r] = "check" /\ pc'[r] # pc[r] /\ reloadedTactics[r]
                /\ p[r] \in {NilParams, ""})
             => (pc'[r] = "idle" <=> currentStrategy = DISCOVERY_STRATEGY_CLASSIC)
          /\ (pc[r] = "setStrategy" /\ pc'[r] # pc[r]
                /\ strategy[r] = DISCOVERY_STRATEGY_CLASSIC)
             => currentStrategy' = DISCOVERY_STRATEGY_CLASSIC]_vars

\* The statement of C9 restricted to checks that overlap no store of line 138.
C9_DefaultsToClassicNoRace ==
    [][\A r \in Reloaders :
          /\ (pc[r] = "get" /\ pc'[r] = "check" /\ tactics \in {NilParams, ""})
             => strategy'[r] = DISCOVERY_STRATEGY_CLASSIC
          /\ (pc[r] = "check" /\ pc'[r] # pc[r] /\ reloadedTactics[r]
                /\ p[r] \in {NilParams, ""} /\ NoStoreInFlight(r))
             => (pc'[r] = "idle" <=> currentStrategy = DISCOVERY_STRATEGY_CLASSIC)
          /\ (pc[r] = "setStrategy" /\ pc'[r] # pc[r]
                /\ strategy[r] = DISCOVERY_STRATEGY_CLASSIC)
             => currentStrategy' = DISCOVERY_STRATEGY_CLASSIC]_vars

\* C10: once newDiscovery has returned the object, the active component is set
\* in every state; no DiscoverServers call panics, and what a call returns is a
\* non-nil slice with one element per selected server (the empty non-nil slice
\* when nothing is selected).
C10_DiscoverServersNeverFails ==
    /\ constructed = "yes" => discovery # NilDiscovery
    /\ \A h \in Handlers :
          /\ pc[h] # "panic"
          /\ pc[h] = "return"
             => /\ ~encodedServerEntries[h].isNil
                /\ Len(encodedServerEntries[h].elems) = Len(servers[h].elems)

\* C10 witness: after a failed reload, a call on a component with no candidate
\* servers returns the empty non-nil slice.
C10_Witness ==
    \E h \in Handlers, r \in Reloaders :
        /\ pc[h] = "return"
        /\ discovery.servers = <<>>
        /\ servers[h] = NilSlice
        /\ encodedServerEntries[h] = MakeSlice(<<>>)
        /\ err[r] = "error"

\* The members of sequence seq.
Members(seq) == {seq[i] : i \in 1..Len(seq)}

\* C11: what a selection returns to a DiscoverServers call, for either strategy,
\* any client address and any candidate list, has at most MaxDisclosureCount
\* servers, has as many servers as the candidate list when that list is shorter
\* than MaxDisclosureCount, and holds candidates only; the sequence the call
\* returns is no longer than MaxDisclosureCount.
C11_BoundedDisclosure ==
    \A h \in Handlers :
        pc[h] = "return"
        => /\ Len(servers[h].elems) <= MaxDisclosureCount
           /\ Len(discovery.servers) < MaxDisclosureCount
              => Len(servers[h].elems) = Len(discovery.servers)
           /\ Members(servers[h].elems) \subseteq Members(discovery.servers)
           /\ Len(encodedServerEntries[h].elems) <= MaxDisclosureCount

\* C11 witness: from a candidate list longer than MaxDisclosureCount two calls
\* for different client addresses each return MaxDisclosureCount entries.
C11_Witness ==
    /\ Len(discovery.servers) > MaxDisclosureCount
    /\ \A h \in Handlers :
          /\ pc[h] = "return"
          /\ Len(encodedServerEntries[h].elems) = MaxDisclosureCount
    /\ \E h1, h2 \in Handlers : clientIP[h1] # clientIP[h2]

\* The time window of the classic strategy a clock reading falls in.
Window(reading) == reading \div WindowLength

\* C12: two DiscoverServers calls answered by the same classic component for
\* the same client address, whose clock readings fall in the same time window,
\* return the same result.
C12_SameWindowSameResult ==
    \A h1, h2 \in Handlers :
        (/\ pc[h1] = "return"
         /\ pc[h2] = "return"
         /\ discovery.strategy = DISCOVERY_STRATEGY_CLASSIC
         /\ usedInstance[h1] = usedInstance[h2]
         /\ clientIP[h1] = clientIP[h2]
         /\ Window(now[h1]) = Window(now[h2]))
        => encodedServerEntries[h1] = encodedServerEntries[h2]

\* C12 witness: two calls for the same client address read different clock
\* values of one window and return the same non-empty result from a classic
\* component.
C12_Witness ==
    \E h1, h2 \in Handlers :
        /\ pc[h1] = "return"
        /\ pc[h2] = "return"
        /\ discovery.strategy = DISCOVERY_STRATEGY_CLASSIC
        /\ clientIP[h1] = clientIP[h2]
        /\ now[h1] # now[h2]
        /\ Window(now[h1]) = Window(now[h2])
        /\ encodedServerEntries[h1].elems # <<>>
        /\ encodedServerEntries[h1] = encodedServerEntries[h2]

\* C12, window rotation: two calls for the same client address whose clock
\* readings fall in different windows return different results.
C12_WindowRotation ==
    \E h1, h2 \in Handlers :
        /\ pc[h1] = "return"
        /\ pc[h2] = "return"
        /\ discovery.strategy = DISCOVERY_STRATEGY_CLASSIC
        /\ clientIP[h1] = clientIP[h2]
        /\ Window(now[h1]) # Window(now[h2])
        /\ encodedServerEntries[h1] # encodedServerEntries[h2]

\* C13: a reload that reaches the check of line 85 as reload(false), or as
\* reload(true) with a target other than the active strategy name, is not
\* skipped; only reload(true) is ever skipped.  A reload that gets past the
\* construction has a component of its own: a new scope nothing has cancelled
\* and that was never installed, the target strategy, the candidate servers of
\* that moment.  Under the lock it cancels the previously active component if
\* there is one (there is none exactly in the reload newDiscovery runs, which
\* cancels nothing), and when it releases the lock the active component is its
\* own, the cancellation handle is the handle of that component, the active
\* strategy name is its target, and it returns nil.
C13_ReloadInstallsFresh ==
    [][\A r \in Reloaders :
          /\ (pc[r] = "check" /\ pc'[r] # pc[r])
             => /\ ~(reloadedTactics[r] /\ strategy[r] = currentStrategy)
                   => pc'[r] = "newStrategy"
                /\ pc'[r] = "idle" => reloadedTactics[r]
          /\ (pc[r] = "newDiscovery" /\ pc'[r] = "lock")
             => LET new == newDiscoveryComponent'[r]
                IN  /\ new.scope = nextScope
                    /\ nextScope' = nextScope + 1
                    /\ new.scope \notin installed \cup {discovery.scope, cancelFunc}
                    /\ cancelCount'[new.scope] = 0
                    /\ new.strategy = strategy[r]
                    /\ new.strategy \in KnownStrategies
                    /\ new.servers \in CandidateSets
          /\ (pc[r] = "cancelPrevious" /\ pc'[r] # pc[r])
             => /\ (discovery = NilDiscovery) <=> (constructed = "running")
                /\ IF discovery = NilDiscovery
                   THEN cancelCount' = cancelCount
                   ELSE cancelCount' = [cancelCount EXCEPT ![discovery.scope] = @ + 1]
          /\ (pc[r] = "unlock" /\ pc'[r] # pc[r])
             => /\ pc'[r] = "idle"
                /\ err'[r] = "nil"
                /\ discovery' = newDiscoveryComponent[r]
                /\ cancelFunc' = newDiscoveryComponent[r].scope
                /\ currentStrategy' = strategy[r]
                /\ currentStrategy' = discovery'.strategy
                /\ cancelCount'[cancelFunc'] = 0]_vars

\* C13 witness: a reload whose target equals the active strategy name was not
\* skipped: it has cancelled the component it superseded, made its own the
\* active one with its handle, and is about to store the strategy name.
C13_Witness ==
    \E r \in Reloaders, s \in ScopeIds :
        /\ pc[r] = "setStrategy"
        /\ strategy[r] = currentStrategy
        /\ discovery = newDiscoveryComponent[r]
        /\ cancelFunc = discovery.scope
        /\ supersededBy[s] = discovery.scope
        /\ cancelCount[s] = 1
        /\ cancelCount[discovery.scope] = 0

\* C14: every access to the orchestrator state is made under the lock: a reload
\* between Lock and Unlock is the writer and no reader is inside, a
\* DiscoverServers call between RLock and RUnlock holds the read lock, and no
\* reload is about to read the active strategy name for the skip decision of
\* line 85 while another reload is about to store it at line 138.
C14_NoUnsynchronisedAccess ==
    /\ \A r \in Reloaders : InSwap(r) => (rwWriter = r /\ rwReaders = {})
    /\ \A h \in Handlers : InReadSection(h) => h \in rwReaders
    /\ \A r, w \in Reloaders :
          (r # w /\ pc[r] = "check" /\ reloadedTactics[r]) => pc[w] # "setStrategy"

\* C15: while a DiscoverServers call is inside its read section the active
\* component, the one it selects from, has not been cancelled; a component
\* that is cancelled and still the active reference exists only while a reload
\* holds the write lock with no reader inside, between its lines 132 and 136.
C15_NoSelectionOnCancelled ==
    /\ \A h \in Handlers :
          InReadSection(h)
          => /\ cancelCount[discovery.scope] = 0
             /\ pc[h] = "return" => cancelCount[usedInstance[h]] = 0
    /\ (discovery # NilDiscovery /\ cancelCount[discovery.scope] > 0)
       => /\ rwReaders = {}
          /\ \E r \in Reloaders : rwWriter = r /\ pc[r] = "setDiscovery"

\* C15 witness: a call has selected from the active component, which is not
\* cancelled, after an earlier component was cancelled, while a reload that
\* will cancel the active one waits for the readers to leave.
C15_Witness ==
    \E h \in Handlers, r \in Reloaders, s \in ScopeIds :
        /\ pc[h] = "return"
        /\ usedInstance[h] = discovery.scope
        /\ cancelCount[discovery.scope] = 0
        /\ supersededBy[s] = discovery.scope
        /\ cancelCount[s] = 1
        /\ pc[r] = "lockWait"
        /\ rwWriter = r

\* The scopes context.WithCancel has handed out so far.
CreatedScopes == 1..(nextScope - 1)

\* No reload is in progress.
NoReloadInProgress == \A r \in Reloaders : pc[r] = "idle"

\* C16: whenever no reload is in progress on a constructed orchestrator, the
\* scope of the active component is the only scope created so far that has not
\* been cancelled, and the cancellation handle is its handle; when
\* newDiscovery has failed, every scope created has been cancelled.
C16_OneLiveScope ==
    NoReloadInProgress
    => /\ constructed = "yes"
          => /\ {s \in CreatedScopes : cancelCount[s] = 0} = {discovery.scope}
             /\ cancelFunc = discovery.scope
       /\ constructed = "failed"
          => \A s \in CreatedScopes : cancelCount[s] > 0

\* C16 witness: no reload is in progress after one component was superseded
\* and the construction of another failed; both their scopes are cancelled and
\* the scope of the active component is not.
C16_Witness ==
    /\ NoReloadInProgress
    /\ constructed = "yes"
    /\ \E s, t \in CreatedScopes :
          /\ supersededBy[s] = discovery.scope
          /\ cancelledBy[s] = {discovery.scope}
          /\ cancelledBy[t] = {t}
          /\ cancelCount[discovery.scope] = 0

\* C17: on a constructed orchestrator, whenever no reload is in progress, the
\* last reload of every goroutine has returned nil, and the tactics have not
\* changed after the last read of line 69, the active strategy name is the
\* target strategy of the configured tactics.
C17_ActiveIsConfigured ==
    (/\ constructed = "yes"
     /\ NoReloadInProgress
     /\ \A r \in Reloaders : err[r] \in {"none", "nil"}
     /\ ~tacticsChanged)
    => currentStrategy = TargetStrategy(tactics)

\* C18: under fair scheduling every reload call and every DiscoverServers call
\* returns, and a reload waiting for the readers to leave acquires the write
\* lock.
C18_EveryCallReturns ==
    \A g \in Reloaders \cup Handlers : []<>(pc[g] = "idle")

\* C18 witness: a reload that will cancel the active component waits for the
\* write lock behind a call inside its read section, with the other call
\* blocked behind the waiting writer and the other reload blocked behind it too.
C18_Witness ==
    \E r, w \in Reloaders, h, g \in Handlers :
        /\ pc[r] = "lockWait"
        /\ rwWriter = r
        /\ pc[w] = "lock"
        /\ InReadSection(h)
        /\ pc[g] = "rlock"
        /\ cancelFunc # Nil

\* C19: what a DiscoverServers call returns has one element for each server
\* the active component selected for the call's client address, and its i-th
\* element is the encoded entry of the i-th selected server.
C19_EncodedInOrder ==
    \A h \in Handlers :
        pc[h] = "return"
        => /\ servers[h] = SelectServers(discovery, clientIP[h], now[h])
           /\ Len(encodedServerEntries[h].elems) = Len(servers[h].elems)
           /\ \A i \in 1..Len(servers[h].elems) :
                 encodedServerEntries[h].elems[i] = EncodedServerEntry(servers[h].elems[i])

\* C19 witness: a call returns the encoded entries of two different servers,
\* selected in an order other than that of their identifiers.
C19_Witness ==
    \E h \in Handlers :
        /\ pc[h] = "return"
        /\ Len(servers[h].elems) = 2
        /\ servers[h].elems[1] > servers[h].elems[2]
        /\ encodedServerEntries[h].elems =
              <<EncodedServerEntry(servers[h].elems[1]), EncodedServerEntry(servers[h].elems[2])>>

====
